---- MODULE Spec2Model ----
(***************************************************************************)
(* Model of js/main.js, the interaction layer of the LUXE BODYSUITS        *)
(* storefront: mobile navigation, product cards, cart counter, newsletter  *)
(* form, intersection observers, screen-reader announcements and the       *)
(* timers (setTimeout) these handlers start.                               *)
(*                                                                         *)
(* One action is one dispatched DOM event (all listeners it reaches, in    *)
(* bubbling order), one timer callback, or one clock tick.  Time is        *)
(* counted in ticks of 1000 ms.                                            *)
(***************************************************************************)
EXTENDS Integers, Sequences, FiniteSets, TLC

----------------------------------------------------------------------------
(* Bounds of the model (page size and run length).                         *)

NumLinks == 2       \* links inside .nav-menu
NumCards == 1       \* .product-card elements
MaxClicks == 2      \* add-to-cart clicks in one run
MaxTimers == 3      \* pending setTimeout callbacks
NumWatched == 2     \* elements registered with each IntersectionObserver
MaxEmailLen == 5    \* length of the strings given to isValidEmail
MaxEntries == 3     \* undelivered IntersectionObserverEntry records
MaxAnims == 2       \* smoothScrollTo animations started in one run

(* Delays of the setTimeout calls, in ticks of 1000 ms.                    *)
AnnounceTicks == 1      \* main.js:327, 1000 ms
AddedTicks == 2         \* main.js:189, 2000 ms
SubscribedTicks == 3    \* main.js:261, 3000 ms

(* The scroll animation, in ticks of 250 ms, and the header controller,    *)
(* in milliseconds.                                                        *)
DurationTicks == 4      \* main.js:39, duration = 1000 ms
HeaderHeight == 60      \* main.js:38, distance = ... - 60
HeaderThreshold == 100  \* main.js:143, currentScrollY > 100
DebounceWait == 10      \* main.js:152, debounce(..., 10)

(* Scroll offsets are counted in 1/Scale of a unit: with this scale the    *)
(* easing curve of an animation over whole units is computed exactly.      *)
Scale == (DurationTicks * DurationTicks) \div 2

(* Time between two animation frames, in ticks: frames that hit the end of *)
(* the duration and frames that pass it.                                   *)
FrameGaps == {2, 3}

(* Offsets the user scrolls to, in units.                                  *)
ScrollSamples == {0, 50, 150, 300}

Links == 1..NumLinks
Cards == 1..NumCards
Watched == 1..NumWatched
Observers == {"reveal", "lazy"}

----------------------------------------------------------------------------
(* Elements of the page.  An element is a record [k, i]; i = 0 for the     *)
(* elements that exist once.                                               *)

El(k, i) == [k |-> k, i |-> i]

navToggle == El("navToggle", 0)
navLink(i) == El("navLink", i)
menuArea == El("navMenu", 0)          \* inside .nav-menu, not on a link
pageArea == El("page", 0)             \* outside menu and toggle, no handler
section == El("section", 0)           \* target of the in-page nav links
aboutSection == El("section", 1)      \* a second in-page target
pageLink(i) == El("pageLink", i)      \* a[href^="#"] outside the menu
headerEl == El("header", 0)
productName(c) == El("productName", c)
newsletterForm == El("newsletterForm", 0)
submitBtn == El("submitBtn", 0)
cartLink == El("cartLink", 0)
addToCartBtn(c) == El("addToCartBtn", c)
quickViewBtn(c) == El("quickViewBtn", c)
emailInput == El("emailInput", 0)
bodyEl == El("body", 0)               \* document.activeElement with no focus

Elements ==
    {navToggle, menuArea, pageArea, section, aboutSection, emailInput,
     bodyEl}
        \cup {navLink(i) : i \in Links}
        \cup {addToCartBtn(c) : c \in Cards}
        \cup {quickViewBtn(c) : c \in Cards}

(* navMenu.contains(e), navToggle.contains(e)                              *)
InNavMenu(e) == e.k \in {"navLink", "navMenu"}
InNavToggle(e) == e.k = "navToggle"

(* Sequential focus order of the document (Tab key default action).        *)
LinkOrder == [i \in 1..NumLinks |-> navLink(i)]

CardButtonOrder ==
    [j \in 1..(2 * NumCards) |->
        IF j % 2 = 1 THEN addToCartBtn((j + 1) \div 2)
        ELSE quickViewBtn(j \div 2)]

TabOrder == <<navToggle>> \o LinkOrder \o CardButtonOrder \o <<emailInput>>

IndexIn(s, e) == IF \E j \in 1..Len(s) : s[j] = e
                 THEN CHOOSE j \in 1..Len(s) : s[j] = e
                 ELSE 0

(* Element that receives focus by the default action of Tab / Shift+Tab.   *)
TabTarget(e, shift) ==
    LET n == Len(TabOrder)
        j == IndexIn(TabOrder, e)
    IN  IF shift
        THEN (IF j <= 1 THEN TabOrder[n] ELSE TabOrder[j - 1])
        ELSE (IF j = 0 \/ j = n THEN TabOrder[1] ELSE TabOrder[j + 1])

BoolStr(b) == IF b THEN "true" ELSE "false"   \* String(boolean)

----------------------------------------------------------------------------
(* State.                                                                  *)

VARIABLES
    navMenuActive,      \* navMenu.classList.contains('active')
    ariaExpanded,       \* navToggle.getAttribute('aria-expanded')
    bodyOverflow,       \* document.body.style.overflow
    activeElement,      \* document.activeElement
    defaultPrevented,   \* defaultPrevented of the event dispatched last
    locationHash,       \* fragment set by history.pushState
    cartCount,          \* let cartCount
    cartLinkText,       \* textContent of a[href="#cart"]
    btnText,            \* textContent of each card's .add-to-cart button
    btnBg,              \* style.backgroundColor of each such button
    emailValue,         \* value of the newsletter email input
    submitText,         \* textContent of the newsletter submit button
    submitBg,           \* style.backgroundColor of the submit button
    timers,             \* pending setTimeout callbacks, in creation order
    liveNodes,          \* announcement nodes that are children of body
    addClicks,          \* history: add-to-cart click events dispatched
    lastEvent,          \* history: the event that was dispatched last
    lastClosed,         \* history: did that event close the menu
    inView,             \* per observer and element: is it intersecting now
    observing,          \* per observer: its observation targets
    entries,            \* per observer: queued IntersectionObserverEntry
    style,              \* opacity and transform of each animated element
    loaded,             \* lazy backgrounds carrying the class 'loaded'
    transitions,        \* history: one-shot transitions made, per element
    scrollY,            \* window.pageYOffset
    anims,              \* running animation closures, in request order
    finished,           \* history: the animation that finished last
    animCount,          \* history: animations started so far
    overlapped,         \* history: an animation started while one ran
    scrollPending,      \* a scroll event waits to be dispatched
    lastScrollY,        \* let lastScrollY
    headerTransform,    \* header.style.transform
    debounceTimers,     \* pending timers set by the debounced handleScroll
    timeout,            \* let timeout of debounce: id of the timer set last
    sinceScroll,        \* history: ms since the last scroll event
    runsSinceScroll,    \* history: handleScroll runs since that event
    burst,              \* history: scroll events sharing the pending timer
    present,            \* the expected elements the document contains
    hasIO,              \* 'IntersectionObserver' in window
    scriptState,        \* "pending", "done" or the error that ended it
    attached,           \* listeners and observers the script has set up
    handlerError        \* the listener that threw, "none" otherwise

scrollVars == <<scrollY, anims, finished, animCount, overlapped,
               scrollPending>>

headerVars == <<lastScrollY, headerTransform, debounceTimers, timeout,
                sinceScroll, runsSinceScroll, burst>>

loadVars == <<present, hasIO, scriptState, attached, handlerError>>

obsVars == <<inView, observing, entries, style, loaded, transitions>>

domVars == <<navMenuActive, ariaExpanded, bodyOverflow, activeElement,
             defaultPrevented, locationHash, cartCount, cartLinkText,
             btnText, btnBg, emailValue, submitText, submitBg, timers,
             liveNodes>>

(* The page as one record, so that the listeners an event reaches can be   *)
(* applied one after the other.                                            *)
Cur ==
    [active |-> navMenuActive, aria |-> ariaExpanded,
     overflow |-> bodyOverflow, focus |-> activeElement,
     prevented |-> defaultPrevented, hash |-> locationHash,
     cartCount |-> cartCount, cartText |-> cartLinkText,
     btnText |-> btnText, btnBg |-> btnBg, email |-> emailValue,
     submitText |-> submitText, submitBg |-> submitBg,
     timers |-> timers, nodes |-> liveNodes,
     anims |-> anims, scrollY |-> scrollY]

Commit(S) ==
    /\ navMenuActive' = S.active
    /\ ariaExpanded' = S.aria
    /\ bodyOverflow' = S.overflow
    /\ activeElement' = S.focus
    /\ defaultPrevented' = S.prevented
    /\ locationHash' = S.hash
    /\ cartCount' = S.cartCount
    /\ cartLinkText' = S.cartText
    /\ btnText' = S.btnText
    /\ btnBg' = S.btnBg
    /\ emailValue' = S.email
    /\ submitText' = S.submitText
    /\ submitBg' = S.submitBg
    /\ timers' = S.timers
    /\ liveNodes' = S.nodes
    /\ anims' = S.anims
    /\ animCount' = animCount + (Len(S.anims) - Len(anims))
    /\ overlapped' = (overlapped
                        \/ (anims # << >> /\ Len(S.anims) > Len(anims)))
    /\ UNCHANGED <<scrollY, finished, scrollPending>>
    /\ UNCHANGED <<headerVars, loadVars, obsVars>>

(* Text of the cart link: the template literal `Cart (${cartCount})`.      *)
CartLabel(n) == <<"Cart (", n, ")">>

OriginalBtnLabel == "Add to Cart"
OriginalSubmitLabel == "Subscribe"

----------------------------------------------------------------------------
(* Utility functions.                                                      *)

Timer(kind, delay, ref, text) ==
    [kind |-> kind, delay |-> delay, rem |-> delay, ref |-> ref,
     text |-> text]

(* setTimeout(callback, delay)                                             *)
setTimeout(S, t) == [S EXCEPT !.timers = Append(@, t)]

Msg(m, c) == [m |-> m, c |-> c]

(* Identity of the node document.createElement returns: a node that is     *)
(* neither in the body nor held by a pending callback.                     *)
UsedNodeIds(S) ==
    {n.id : n \in S.nodes}
        \cup {S.timers[j].ref : j \in {x \in 1..Len(S.timers) :
                                   S.timers[x].kind = "removeAnnouncement"}}

FreshNodeId(S) == CHOOSE id \in 1..(MaxTimers + 2) :
    /\ id \notin UsedNodeIds(S)
    /\ \A j \in 1..(id - 1) : j \in UsedNodeIds(S)

announceToScreenReader(S, message) ==
    LET id == FreshNodeId(S)
        S1 == [S EXCEPT !.nodes = @ \cup {[id |-> id, msg |-> message]}]
    IN  setTimeout(S1, Timer("removeAnnouncement", AnnounceTicks, id, ""))

(* Variant: the label is written before the counter is incremented.        *)
updateCartCount_StaleLabel(S) ==
    IF cartLink \in present
    THEN [S EXCEPT !.cartCount = @ + 1, !.cartText = CartLabel(S.cartCount)]
    ELSE [S EXCEPT !.cartCount = @ + 1]

updateCartCount(S) ==
    LET n == S.cartCount + 1
    IN  IF cartLink \in present
        THEN [S EXCEPT !.cartCount = n, !.cartText = CartLabel(n)]
        ELSE [S EXCEPT !.cartCount = n]

(* /^[^\s@]+@[^\s@]+\.[^\s@]+$/ on a sequence of characters.               *)
Whitespace == {" "}
NotSpaceAt(email, from, to) ==
    /\ from <= to
    /\ \A j \in from..to : email[j] \notin Whitespace \cup {"@"}

(* Variant: the domain part may contain further '@' characters.            *)
isValidEmail_LooseDomain(email) ==
    \E a \in 1..Len(email) : \E d \in 1..Len(email) :
        /\ email[a] = "@"
        /\ email[d] = "."
        /\ NotSpaceAt(email, 1, a - 1)
        /\ a + 1 <= d - 1
        /\ \A j \in (a + 1)..(d - 1) : email[j] \notin Whitespace
        /\ NotSpaceAt(email, d + 1, Len(email))

isValidEmail(email) ==
    \E a \in 1..Len(email) : \E d \in 1..Len(email) :
        /\ email[a] = "@"
        /\ email[d] = "."
        /\ NotSpaceAt(email, 1, a - 1)
        /\ NotSpaceAt(email, a + 1, d - 1)
        /\ NotSpaceAt(email, d + 1, Len(email))

----------------------------------------------------------------------------
(* Mobile navigation.                                                      *)

navToggleClick(S) ==
    LET isExpanded == S.aria = "true"
        active == ~S.active
    IN  [S EXCEPT !.aria = BoolStr(~isExpanded),
                  !.active = active,
                  !.overflow = IF active THEN "hidden" ELSE ""]

closeMenu(S) ==
    [S EXCEPT !.active = FALSE, !.aria = "false", !.overflow = ""]

(* Variant: the link handler forgets the aria-expanded attribute.          *)
navLinkClick_KeepsAria(S) == [S EXCEPT !.active = FALSE, !.overflow = ""]

navLinkClick(S) == closeMenu(S)

(* Variant: the outside-click handler forgets the scroll lock.             *)
documentClick_KeepsLock(S, target) ==
    IF S.active /\ ~InNavMenu(target) /\ ~InNavToggle(target)
    THEN [S EXCEPT !.active = FALSE, !.aria = "false"]
    ELSE S

documentClick(S, target) ==
    IF S.active /\ ~InNavMenu(target) /\ ~InNavToggle(target)
    THEN closeMenu(S)
    ELSE S

(* Variant: Escape closes the menu without moving the focus.               *)
documentKeydown_NoFocus(S, key) ==
    IF key = "Escape" /\ S.active THEN closeMenu(S) ELSE S

documentKeydown(S, key) ==
    IF key = "Escape" /\ S.active
    THEN [closeMenu(S) EXCEPT !.focus = navToggle]
    ELSE S

(* Focus trap: first and last focusable element of the menu, as computed   *)
(* once at setup.                                                          *)
firstFocusable == navLink(1)
lastFocusable == navLink(NumLinks)

(* Variant: the trap does not test whether the menu is open.               *)
navMenuKeydown_AlwaysTraps(S, key, shiftKey) ==
    IF key # "Tab" THEN S
    ELSE IF shiftKey
         THEN (IF S.focus = firstFocusable
               THEN [S EXCEPT !.prevented = TRUE, !.focus = lastFocusable]
               ELSE S)
         ELSE (IF S.focus = lastFocusable
               THEN [S EXCEPT !.prevented = TRUE, !.focus = firstFocusable]
               ELSE S)

navMenuKeydown(S, key, shiftKey) ==
    IF ~S.active THEN S
    ELSE IF key # "Tab" THEN S
    ELSE IF shiftKey
         THEN (IF S.focus = firstFocusable
               THEN [S EXCEPT !.prevented = TRUE, !.focus = lastFocusable]
               ELSE S)
         ELSE (IF S.focus = lastFocusable
               THEN [S EXCEPT !.prevented = TRUE, !.focus = firstFocusable]
               ELSE S)

----------------------------------------------------------------------------
(* In-page anchors.  The odd nav links point to an existing section, the   *)
(* even ones are placeholders.                                             *)

LinkHref(i) == IF i % 2 = 1 THEN "#products" ELSE "#"

(* The anchors outside the menu: a placeholder, the cart link, a link to   *)
(* an id the document lacks, and links to the two sections.                *)
PageHrefs == <<"#", "#cart", "#missing", "#products", "#about">>
PageLinks == 1..Len(PageHrefs)

querySelector(href) ==
    IF href = "#products" THEN section
    ELSE IF href = "#about" THEN aboutSection
    ELSE bodyEl
TargetExists(href) == href \in {"#products", "#about"}

(* The clicks the anchor listener handles itself.                          *)
Intercepted(href) == href \notin {"#", "#cart"} /\ TargetExists(href)

(* Distance of a section's top edge from the top of the document.          *)
DocumentTop(target) == IF target = section THEN 1060 * Scale
                       ELSE 2060 * Scale

(* target.getBoundingClientRect().top                                      *)
RectTop(target, pageYOffset) == DocumentTop(target) - pageYOffset

(* Variant: the curve is held at its end value once the duration is over.  *)
ease_Clamped(t, b, c, d) ==
    LET h == d \div 2
    IN  IF t >= d THEN c + b
        ELSE IF t < h
        THEN (c * t * t) \div (2 * h * h) + b
        ELSE (0 - c * ((t - h) * (t - 3 * h) - h * h)) \div (2 * h * h) + b

(* ease(t, b, c, d): with u = t / (d/2), c/2*u*u + b for u < 1 and         *)
(* -c/2 * ((u-1)*(u-3) - 1) + b from there on.                             *)
ease(t, b, c, d) ==
    LET h == d \div 2
    IN  IF t < h
        THEN (c * t * t) \div (2 * h * h) + b
        ELSE (0 - c * ((t - h) * (t - 3 * h) - h * h)) \div (2 * h * h) + b

(* smoothScrollTo(target) up to its requestAnimationFrame call: the        *)
(* closure of the animation callback, with start still null.               *)
smoothScrollTo(S, target) ==
    LET targetPosition == RectTop(target, S.scrollY) + S.scrollY
        startPosition == S.scrollY
        distance == targetPosition - startPosition - HeaderHeight * Scale
    IN  [S EXCEPT !.anims =
            Append(@, [target |-> target, started |-> FALSE,
                       timeElapsed |-> 0, startPosition |-> startPosition,
                       distance |-> distance])]

(* Variant: the cart link is handled like any other in-page anchor.        *)
anchorClick_OnlyHash(S, href) ==
    IF href = "#" THEN S
    ELSE IF TargetExists(href) \/ href = "#cart"
         THEN [smoothScrollTo(S, querySelector(href))
                 EXCEPT !.prevented = TRUE, !.hash = href,
                        !.focus = querySelector(href)]
         ELSE S

anchorClick(S, href) ==
    IF href = "#" \/ href = "#cart" THEN S
    ELSE IF TargetExists(href)
         THEN [smoothScrollTo(S, querySelector(href))
                 EXCEPT !.prevented = TRUE, !.hash = href,
                        !.focus = querySelector(href)]
         ELSE S

(* One animation frame: animation(currentTime) of one closure.             *)
animation(a, gap) ==
    LET timeElapsed == IF a.started THEN a.timeElapsed + gap ELSE 0
    IN  [a EXCEPT !.started = TRUE, !.timeElapsed = timeElapsed]

(* The callbacks of one frame run in request order; each writes the scroll *)
(* offset and asks for another frame while its duration is not over.       *)
RECURSIVE runFrame(_, _, _)
runFrame(queue, R, gap) ==
    IF queue = << >> THEN R
    ELSE LET a == animation(Head(queue), gap)
             run == ease(a.timeElapsed, a.startPosition, a.distance,
                         DurationTicks)
             again == a.timeElapsed < DurationTicks
         IN  runFrame(Tail(queue),
                      [anims |-> IF again THEN Append(R.anims, a)
                                 ELSE R.anims,
                       scrollY |-> run,
                       finished |-> IF again THEN R.finished
                                    ELSE <<[target |-> a.target,
                                            final |-> run]>>],
                      gap)

----------------------------------------------------------------------------
(* Header visibility.                                                      *)

(* Variant: the previous sample is never updated.                          *)
handleScroll_KeepsSample(H, pageYOffset) ==
    LET currentScrollY == pageYOffset
    IN  IF currentScrollY > H.lastScrollY
           /\ currentScrollY > HeaderThreshold * Scale
        THEN [H EXCEPT !.transform = "translateY(-100%)"]
        ELSE [H EXCEPT !.transform = "translateY(0)"]

(* The function handed to debounce.                                        *)
handleScroll(H, pageYOffset) ==
    LET currentScrollY == pageYOffset
    IN  IF currentScrollY > H.lastScrollY
           /\ currentScrollY > HeaderThreshold * Scale
        THEN [H EXCEPT !.transform = "translateY(-100%)",
                       !.lastScrollY = currentScrollY]
        ELSE [H EXCEPT !.transform = "translateY(0)",
                       !.lastScrollY = currentScrollY]

(* clearTimeout(id): no effect when no such timer is pending.              *)
clearTimeout(pending, id) == {t \in pending : t.id # id}

(* Identity of the timer setTimeout returns.                               *)
FreshTimerId(pending) ==
    CHOOSE id \in 1..(Cardinality(pending) + 1) :
        /\ \A t \in pending : t.id # id
        /\ \A other \in 1..(id - 1) : \E t \in pending : t.id = other

(* Variant: a call does not cancel the timer of the call before it.        *)
debounced_NoClear(D) ==
    LET id == FreshTimerId(D.pending)
    IN  [pending |-> D.pending \cup {[id |-> id, rem |-> DebounceWait]},
         timeout |-> id]

(* The function debounce returns, called for one event.                    *)
debounced(D) ==
    LET cleared == clearTimeout(D.pending, D.timeout)
        id == FreshTimerId(cleared)
    IN  [pending |-> cleared \cup {[id |-> id, rem |-> DebounceWait]},
         timeout |-> id]

----------------------------------------------------------------------------
(* Product cards.                                                          *)

addToCartClick(S, c) ==
    LET originalText == S.btnText[c]
        S1 == [S EXCEPT !.btnText[c] = "Added!", !.btnBg[c] = "#4CAF50"]
        S2 == announceToScreenReader(S1, Msg("added to cart", c))
        S3 == updateCartCount(S2)
    IN  setTimeout(S3, Timer("revertBtn", AddedTicks, c, originalText))

quickViewClick(S, c) ==
    announceToScreenReader(S, Msg("Opening quick view for", c))

(* Variant: the key press goes to the add-to-cart button.                  *)
cardKeydown_AddsToCart(S, c, key) ==
    IF key = "Enter" \/ key = " "
    THEN addToCartClick([S EXCEPT !.prevented = TRUE], c)
    ELSE S

(* quickViewBtn?.click() reaches the listener only if the button exists.   *)
cardKeydown(S, c, key) ==
    IF key = "Enter" \/ key = " "
    THEN (IF quickViewBtn(c) \in present
          THEN quickViewClick([S EXCEPT !.prevented = TRUE], c)
          ELSE [S EXCEPT !.prevented = TRUE])
    ELSE S

----------------------------------------------------------------------------
(* Newsletter form.                                                        *)

(* Variant: the field is cleared before the value is validated.            *)
newsletterSubmit_ClearsOnError(S) ==
    LET S0 == [S EXCEPT !.prevented = TRUE]
        email == S.email
    IN  IF email = << >> \/ ~isValidEmail(email)
        THEN [announceToScreenReader(S0,
                  Msg("Please enter a valid email address", 0))
                EXCEPT !.focus = emailInput, !.email = << >>]
        ELSE LET originalBtnText == S0.submitText
                 S1 == [S0 EXCEPT !.submitText = "Subscribed!",
                                  !.submitBg = "#4CAF50",
                                  !.email = << >>]
                 S2 == announceToScreenReader(S1,
                           Msg("Successfully subscribed to newsletter", 0))
             IN  setTimeout(S2, Timer("revertSubmit", SubscribedTicks, 0,
                                      originalBtnText))

newsletterSubmit(S) ==
    LET S0 == [S EXCEPT !.prevented = TRUE]
        email == S.email
    IN  IF email = << >> \/ ~isValidEmail(email)
        THEN [announceToScreenReader(S0,
                  Msg("Please enter a valid email address", 0))
                EXCEPT !.focus = emailInput]
        ELSE LET originalBtnText == S0.submitText
                 S1 == [S0 EXCEPT !.submitText = "Subscribed!",
                                  !.submitBg = "#4CAF50",
                                  !.email = << >>]
                 S2 == announceToScreenReader(S1,
                           Msg("Successfully subscribed to newsletter", 0))
             IN  setTimeout(S2, Timer("revertSubmit", SubscribedTicks, 0,
                                      originalBtnText))

----------------------------------------------------------------------------
(* Timer callbacks.                                                        *)

(* Variant: the callback removes every announcement with the same text.    *)
timerCallback_RemovesByText(S, t) ==
    IF t.kind = "removeAnnouncement"
    THEN LET own == {n \in S.nodes : n.id = t.ref}
         IN  [S EXCEPT !.nodes =
                 {n \in @ : \A o \in own : n.msg # o.msg}]
    ELSE IF t.kind = "revertBtn"
    THEN [S EXCEPT !.btnText[t.ref] = t.text, !.btnBg[t.ref] = ""]
    ELSE [S EXCEPT !.submitText = t.text, !.submitBg = ""]

timerCallback(S, t) ==
    IF t.kind = "removeAnnouncement"
    THEN [S EXCEPT !.nodes = {n \in @ : n.id # t.ref}]
    ELSE IF t.kind = "revertBtn"
    THEN [S EXCEPT !.btnText[t.ref] = t.text, !.btnBg[t.ref] = ""]
    ELSE [S EXCEPT !.submitText = t.text, !.submitBg = ""]

----------------------------------------------------------------------------
(* Event dispatch: the listeners an event reaches, target first, then the  *)
(* ancestors up to document; stopPropagation ends the walk.                *)

Focusable(e) == e.k \in {"navToggle", "navLink", "addToCartBtn",
                         "quickViewBtn", "emailInput", "pageLink"}

(* Focus after the pointer press that precedes a click: browsers either    *)
(* focus the pressed element (body when it is not focusable) or leave the  *)
(* focus where it is (a click made from the keyboard or by script).        *)
FocusAfterPress(e) == {activeElement, IF Focusable(e) THEN e ELSE bodyEl}

clickDispatch(S, target) ==
    IF target.k = "navToggle"
    THEN documentClick(navToggleClick(S), target)
    ELSE IF target.k = "navLink"
    THEN documentClick(anchorClick(navLinkClick(S), LinkHref(target.i)),
                       target)
    ELSE IF target.k = "pageLink"
    THEN documentClick(anchorClick(S, PageHrefs[target.i]), target)
    ELSE IF target.k = "addToCartBtn"
    THEN addToCartClick(S, target.i)          \* e.stopPropagation()
    ELSE IF target.k = "quickViewBtn"
    THEN quickViewClick(S, target.i)          \* e.stopPropagation()
    ELSE documentClick(S, target)

InCard(e) == e.k \in {"addToCartBtn", "quickViewBtn"}

keydownDispatch(S, key, shiftKey) ==
    LET target == S.focus
        S1 == IF InCard(target) THEN cardKeydown(S, target.i, key) ELSE S
        S2 == IF InNavMenu(target) THEN navMenuKeydown(S1, key, shiftKey)
              ELSE S1
        S3 == documentKeydown(S2, key)
    IN  IF key = "Tab" /\ ~S3.prevented
        THEN [S3 EXCEPT !.focus = TabTarget(S3.focus, shiftKey)]
        ELSE S3

NewEvent == [Cur EXCEPT !.prevented = FALSE]

----------------------------------------------------------------------------
(* The script's run at load time: which listeners it attaches, and where   *)
(* it stops when a statement throws.  P is the set of expected elements    *)
(* the document contains, io tells whether IntersectionObserver exists.    *)

ExpectedParts ==
    {navToggle, menuArea, headerEl, newsletterForm, emailInput, submitBtn,
     cartLink}
        \cup {productName(c) : c \in Cards}
        \cup {addToCartBtn(c) : c \in Cards}
        \cup {quickViewBtn(c) : c \in Cards}

(* The form's controls are looked up inside the form.                      *)
WellNested(P) ==
    newsletterForm \notin P => (emailInput \notin P /\ submitBtn \notin P)

Listener(name, i) == [name |-> name, i |-> i]

Attach(L, listeners) == [L EXCEPT !.attached = @ \cup listeners]

initNav(L, P) ==
    IF L.error # "none" THEN L
    ELSE IF navToggle \in P /\ menuArea \in P
    THEN Attach(L, {Listener("navToggle click", 0),
                    Listener("document click", 0)}
                     \cup {Listener("navLink click", i) : i \in Links})
    ELSE L

initAnchors(L, P) ==
    IF L.error # "none" THEN L
    ELSE Attach(L, {Listener("anchor click", 0)})

initHeader(L, P) ==
    IF L.error # "none" THEN L
    ELSE Attach(L, {Listener("window scroll", 0)})

(* productCards.forEach: the name is read before any listener is added.    *)
RECURSIVE initCards(_, _, _)
initCards(L, P, c) ==
    IF L.error # "none" \/ c > NumCards THEN L
    ELSE IF productName(c) \notin P
    THEN [L EXCEPT !.error = "TypeError at productName"]
    ELSE initCards(
             Attach(L, {Listener("card keydown", c)}
                 \cup (IF addToCartBtn(c) \in P
                       THEN {Listener("addToCart click", c)} ELSE {})
                 \cup (IF quickViewBtn(c) \in P
                       THEN {Listener("quickView click", c)} ELSE {})),
             P, c + 1)

initNewsletter(L, P) ==
    IF L.error # "none" THEN L
    ELSE IF newsletterForm \in P
    THEN Attach(L, {Listener("newsletter submit", 0)})
    ELSE L

(* const observer = new IntersectionObserver(...)                          *)
initReveal(L, io) ==
    IF L.error # "none" THEN L
    ELSE IF ~io THEN [L EXCEPT !.error = "ReferenceError at observer"]
    ELSE Attach(L, {Listener("reveal observer", 0)})

initLazy(L, io) ==
    IF L.error # "none" THEN L
    ELSE IF io THEN Attach(L, {Listener("lazy observer", 0)})
    ELSE L

initLoad(L) ==
    IF L.error # "none" THEN L
    ELSE Attach(L, {Listener("window load", 0)})

initEscape(L) ==
    IF L.error # "none" THEN L
    ELSE Attach(L, {Listener("document keydown", 0)})

initTrap(L, P) ==
    IF L.error # "none" THEN L
    ELSE IF menuArea \in P
    THEN Attach(L, {Listener("navMenu keydown", 0)})
    ELSE L

(* The statements of the script in source order.                           *)
RunScript(P, io) ==
    LET L0 == [attached |-> {}, error |-> "none"]
        L1 == initNav(L0, P)
        L2 == initAnchors(L1, P)
        L3 == initHeader(L2, P)
        L4 == initCards(L3, P, 1)
        L5 == initNewsletter(L4, P)
        L6 == initReveal(L5, io)
        L7 == initLazy(L6, io)
        L8 == initLoad(L7)
        L9 == initEscape(L8)
    IN  initTrap(L9, P)

----------------------------------------------------------------------------
(* Initial state: the page after the script has run.                       *)

ScrollInit ==
    /\ scrollY = 0
    /\ anims = << >>
    /\ finished = << >>
    /\ animCount = 0
    /\ overlapped = FALSE
    /\ scrollPending = FALSE

HeaderInit ==
    /\ lastScrollY = 0
    /\ headerTransform = ""
    /\ debounceTimers = {}
    /\ timeout = 0
    /\ sinceScroll = 0
    /\ runsSinceScroll = 0
    /\ burst = 0

(* A complete document in a browser that has IntersectionObserver.         *)
LoadedInit ==
    /\ present = ExpectedParts
    /\ hasIO = TRUE
    /\ scriptState = "done"
    /\ attached = RunScript(ExpectedParts, TRUE).attached
    /\ handlerError = "none"

PageInit ==
    /\ navMenuActive = FALSE
    /\ ariaExpanded = "false"
    /\ bodyOverflow = ""
    /\ activeElement = bodyEl
    /\ defaultPrevented = FALSE
    /\ locationHash = ""
    /\ cartCount = 0
    /\ cartLinkText = CartLabel(0)
    /\ btnText = [c \in Cards |-> OriginalBtnLabel]
    /\ btnBg = [c \in Cards |-> ""]
    /\ submitText = OriginalSubmitLabel
    /\ submitBg = ""
    /\ timers = << >>
    /\ liveNodes = {}
    /\ addClicks = 0
    /\ lastEvent = "load"
    /\ lastClosed = FALSE
    /\ ScrollInit
    /\ HeaderInit

DomInit ==
    /\ emailValue = << >>
    /\ PageInit
    /\ LoadedInit

(* Both observers right after setup: every target hidden (reveal) or not   *)
(* yet loaded (lazy), observed, and its first entry queued.                *)
Hidden == [opacity |-> "0", transform |-> "translateY(20px)"]
Visible == [opacity |-> "1", transform |-> "translateY(0)"]

Entry(target, isIntersecting) ==
    [target |-> target, isIntersecting |-> isIntersecting]

ObsInit(iv) ==
    /\ inView = iv
    /\ observing = [o \in Observers |-> Watched]
    /\ entries = [o \in Observers |->
                     [e \in Watched |-> Entry(e, iv[o][e])]]
    /\ style = [e \in Watched |-> Hidden]
    /\ loaded = {}
    /\ transitions = [o \in Observers |-> [e \in Watched |-> 0]]

Init ==
    /\ DomInit
    /\ ObsInit([o \in Observers |-> [e \in Watched |-> FALSE]])

----------------------------------------------------------------------------
(* Actions.                                                                *)

(* History of the dispatched event.                                        *)
Dispatched(name) ==
    /\ lastEvent' = name
    /\ lastClosed' = (navMenuActive /\ ~navMenuActive')

Click(target) ==
    \E f \in FocusAfterPress(target) :
        Commit(clickDispatch([NewEvent EXCEPT !.focus = f], target))

ToggleClick ==
    /\ Click(navToggle)
    /\ Dispatched("click navToggle")
    /\ UNCHANGED addClicks

NavLinkClick ==
    /\ \E i \in Links :
           /\ Intercepted(LinkHref(i)) => animCount < MaxAnims
           /\ Click(navLink(i))
    /\ Dispatched("click navLink")
    /\ UNCHANGED addClicks

MenuAreaClick ==
    /\ Click(menuArea)
    /\ Dispatched("click navMenu")
    /\ UNCHANGED addClicks

OutsideClick ==
    /\ Click(pageArea)
    /\ Dispatched("click outside")
    /\ UNCHANGED addClicks

AddToCartClick ==
    /\ addClicks < MaxClicks
    /\ Len(timers) + 2 <= MaxTimers
    /\ \E c \in Cards :
           addToCartBtn(c) \in present /\ Click(addToCartBtn(c))
    /\ addClicks' = addClicks + 1
    /\ Dispatched("click addToCart")

QuickViewClick ==
    /\ Len(timers) + 1 <= MaxTimers
    /\ \E c \in Cards :
           quickViewBtn(c) \in present /\ Click(quickViewBtn(c))
    /\ Dispatched("click quickView")
    /\ UNCHANGED addClicks

KeyEscape ==
    /\ Commit(keydownDispatch(NewEvent, "Escape", FALSE))
    /\ Dispatched("keydown Escape")
    /\ UNCHANGED addClicks

KeyTab ==
    /\ \E shiftKey \in BOOLEAN :
           /\ Commit(keydownDispatch(NewEvent, "Tab", shiftKey))
           /\ Dispatched(IF shiftKey THEN "keydown Shift+Tab"
                         ELSE "keydown Tab")
    /\ UNCHANGED addClicks

CardKeys == {"Enter", " ", "a"}

CardKey ==
    /\ InCard(activeElement)
    /\ Len(timers) + 1 <= MaxTimers
    /\ \E key \in CardKeys :
           /\ Commit(keydownDispatch(NewEvent, key, FALSE))
           /\ Dispatched(IF key = "a" THEN "keydown other"
                         ELSE "keydown activate")
    /\ UNCHANGED addClicks

(* A timer is due when its delay has elapsed.  Of two due timers the one   *)
(* created first runs first unless its delay is the longer one.            *)
Due(j) ==
    /\ timers[j].rem = 0
    /\ \A k \in 1..(j - 1) :
           timers[k].rem = 0 => timers[k].delay > timers[j].delay

Without(s, j) == [x \in 1..(Len(s) - 1) |-> IF x < j THEN s[x] ELSE s[x + 1]]

FireTimer ==
    /\ \E j \in 1..Len(timers) :
           /\ Due(j)
           /\ Commit(timerCallback([Cur EXCEPT !.timers = Without(@, j)],
                                   timers[j]))
    /\ UNCHANGED <<addClicks, lastEvent, lastClosed>>

Tick ==
    /\ timers # << >>
    /\ \A j \in 1..Len(timers) : timers[j].rem > 0
    /\ timers' = [j \in 1..Len(timers) |->
                      [timers[j] EXCEPT !.rem = @ - 1]]
    /\ UNCHANGED <<navMenuActive, ariaExpanded, bodyOverflow, activeElement,
                   defaultPrevented, locationHash, cartCount, cartLinkText,
                   btnText, btnBg, emailValue, submitText, submitBg,
                   liveNodes, addClicks, lastEvent, lastClosed, obsVars,
                   scrollVars, headerVars, loadVars>>

(* Everything the scroll animation and the header controller leave alone.  *)
pageVars == <<domVars, addClicks, lastEvent, lastClosed, obsVars, loadVars>>

(* A click on an anchor outside the menu.                                  *)
AnchorClickOn(i) ==
    /\ Intercepted(PageHrefs[i]) => animCount < MaxAnims
    /\ Click(pageLink(i))
    /\ Dispatched("click anchor")
    /\ UNCHANGED addClicks

AnchorClick == \E i \in PageLinks : AnchorClickOn(i)

(* The browser runs the requested animation callbacks of one frame.        *)
Frame ==
    /\ anims # << >>
    /\ \E gap \in FrameGaps :
           LET R == runFrame(anims, [anims |-> << >>, scrollY |-> scrollY,
                                     finished |-> finished], gap)
           IN  /\ anims' = R.anims
               /\ scrollY' = R.scrollY
               /\ finished' = R.finished
               /\ scrollPending' = (scrollPending \/ R.scrollY # scrollY)
    /\ UNCHANGED <<animCount, overlapped, pageVars, headerVars>>

(* The user scrolls the page.                                              *)
UserScroll ==
    /\ \E y \in ScrollSamples :
           /\ y * Scale # scrollY
           /\ scrollY' = y * Scale
    /\ scrollPending' = TRUE
    /\ UNCHANGED <<anims, finished, animCount, overlapped, pageVars,
                   headerVars>>

CurDebounce == [pending |-> debounceTimers, timeout |-> timeout]

(* The scroll event reaches the debounced listener.                        *)
ScrollEvent ==
    /\ scrollPending
    /\ scrollPending' = FALSE
    /\ LET D == debounced(CurDebounce)
       IN  /\ debounceTimers' = D.pending
           /\ timeout' = D.timeout
    /\ sinceScroll' = 0
    /\ runsSinceScroll' = 0
    /\ burst' = IF debounceTimers = {} THEN 1
                ELSE IF burst < 2 THEN burst + 1 ELSE burst
    /\ UNCHANGED <<scrollY, anims, finished, animCount, overlapped,
                   lastScrollY, headerTransform, pageVars>>

(* One millisecond passes while a debounce timer is pending.               *)
MsTick ==
    /\ debounceTimers # {}
    /\ \A t \in debounceTimers : t.rem > 0
    /\ debounceTimers' = {[t EXCEPT !.rem = @ - 1] : t \in debounceTimers}
    /\ sinceScroll' = IF sinceScroll < DebounceWait THEN sinceScroll + 1
                      ELSE sinceScroll
    /\ UNCHANGED <<scrollVars, lastScrollY, headerTransform, timeout,
                   runsSinceScroll, burst, pageVars>>

(* A debounce timer fires: later() clears `timeout` and calls handleScroll. *)
HandleScroll ==
    /\ \E t \in debounceTimers :
           /\ t.rem = 0
           /\ debounceTimers' = clearTimeout(debounceTimers \ {t}, timeout)
    /\ LET H == handleScroll([lastScrollY |-> lastScrollY,
                              transform |-> headerTransform], scrollY)
       IN  /\ lastScrollY' = H.lastScrollY
           /\ headerTransform' = H.transform
    /\ runsSinceScroll' = IF runsSinceScroll < 2 THEN runsSinceScroll + 1
                          ELSE runsSinceScroll
    /\ UNCHANGED <<scrollVars, timeout, sinceScroll, burst, pageVars>>

vars == <<domVars, addClicks, lastEvent, lastClosed, obsVars, scrollVars,
          headerVars, loadVars>>

(* The events of the menu, the cards and their timers.                     *)
ShopNext ==
    \/ ToggleClick
    \/ NavLinkClick
    \/ MenuAreaClick
    \/ OutsideClick
    \/ AddToCartClick
    \/ QuickViewClick
    \/ KeyEscape
    \/ KeyTab
    \/ CardKey
    \/ FireTimer
    \/ Tick

ShopSpec == Init /\ [][ShopNext]_vars

(* The navigation events alone.                                            *)
NavNext ==
    \/ ToggleClick
    \/ NavLinkClick
    \/ MenuAreaClick
    \/ OutsideClick
    \/ KeyEscape
    \/ KeyTab
    \/ Frame

NavSpec == Init /\ [][NavNext]_vars

(* The in-page anchors and the animation frames.                           *)
ScrollNext ==
    \/ AnchorClick
    \/ NavLinkClick
    \/ Frame

ScrollSpec == Init /\ [][ScrollNext]_vars

(* The header controller: scrolling, the debounce timer, handleScroll.     *)
HeaderNext ==
    \/ UserScroll
    \/ ScrollEvent
    \/ MsTick
    \/ HandleScroll

HeaderSpec == Init /\ [][HeaderNext]_vars

HeaderFairSpec ==
    /\ Init
    /\ [][HeaderNext]_vars
    /\ WF_vars(ScrollEvent)
    /\ WF_vars(MsTick)
    /\ WF_vars(HandleScroll)

(* The product-card events and the timers they start.                      *)
CartNext ==
    \/ AddToCartClick
    \/ QuickViewClick
    \/ CardKey
    \/ FireTimer
    \/ Tick

CartSpec == Init /\ [][CartNext]_vars

(* The same events on cards of which any may lack its quick-view button.   *)
CardInit ==
    /\ emailValue = << >>
    /\ PageInit
    /\ ObsInit([o \in Observers |-> [e \in Watched |-> FALSE]])
    /\ \E Q \in SUBSET {quickViewBtn(c) : c \in Cards} :
           /\ present = ExpectedParts \ Q
           /\ attached = RunScript(ExpectedParts \ Q, TRUE).attached
    /\ hasIO = TRUE
    /\ scriptState = "done"
    /\ handlerError = "none"

CardSpec == CardInit /\ [][CartNext]_vars

(* The script's run on a document that may lack expected elements, in a    *)
(* browser that may lack IntersectionObserver, and the events after it.    *)
LoadInit ==
    /\ emailValue = << >>
    /\ PageInit
    /\ ObsInit([o \in Observers |-> [e \in Watched |-> FALSE]])
    /\ present \in {P \in SUBSET ExpectedParts : WellNested(P)}
    /\ hasIO \in BOOLEAN
    /\ scriptState = "pending"
    /\ attached = {}
    /\ handlerError = "none"

ScriptRun ==
    /\ scriptState = "pending"
    /\ LET L == RunScript(present, hasIO)
       IN  /\ attached' = L.attached
           /\ scriptState' = IF L.error = "none" THEN "done" ELSE L.error
    /\ UNCHANGED <<domVars, addClicks, lastEvent, lastClosed, obsVars,
                   scrollVars, headerVars, present, hasIO, handlerError>>

PageEvents == {"scroll", "submit valid", "submit invalid", "Escape",
               "card key", "add to cart", "anchor click"}

(* Does the listener the event reaches use an element that is missing?     *)
HandlerThrows(ev) ==
    IF ev = "scroll"
    THEN Listener("window scroll", 0) \in attached /\ headerEl \notin present
    ELSE IF ev = "submit invalid"
    THEN Listener("newsletter submit", 0) \in attached
            /\ emailInput \notin present
    ELSE IF ev = "submit valid"
    THEN Listener("newsletter submit", 0) \in attached
            /\ (emailInput \notin present \/ submitBtn \notin present)
    ELSE IF ev = "Escape"
    THEN Listener("document keydown", 0) \in attached
            /\ menuArea \in present /\ navMenuActive
            /\ navToggle \notin present
    ELSE FALSE

PageEvent ==
    /\ scriptState # "pending"
    /\ \E ev \in PageEvents :
           /\ lastEvent' = ev
           /\ handlerError' = IF HandlerThrows(ev) THEN ev ELSE handlerError
    /\ UNCHANGED <<domVars, addClicks, lastClosed, obsVars, scrollVars,
                   headerVars, present, hasIO, scriptState, attached>>

LoadToggleClick ==
    /\ scriptState # "pending"
    /\ Listener("navToggle click", 0) \in attached
    /\ ToggleClick

LoadNext ==
    \/ ScriptRun
    \/ PageEvent
    \/ LoadToggleClick

LoadSpec == LoadInit /\ [][LoadNext]_vars

----------------------------------------------------------------------------
(* Newsletter form: typing into the email field and submitting.            *)

(* Values the user leaves in the email field: empty, valid, and one that   *)
(* fails each part of the pattern.                                         *)
EmailSamples ==
    { << >>,
      <<"a", "@", "a", ".", "a">>,
      <<"a", ".", "a", "@", "a", "a", ".", "a", "a">>,
      <<"a", "a", "a">>,
      <<"a", "@", "a">>,
      <<"@", "a", ".", "a">>,
      <<"a", "@", ".", "a">>,
      <<"a", "@", "a", ".">>,
      <<"a", " ", "@", "a", ".", "a">>,
      <<"a", "@", "a", "@", "a", ".", "a">> }

EmailInput ==
    /\ \E v \in EmailSamples : emailValue' = v
    /\ emailValue' # emailValue
    /\ activeElement' = emailInput
    /\ Dispatched("input")
    /\ UNCHANGED <<navMenuActive, ariaExpanded, bodyOverflow,
                   defaultPrevented, locationHash, cartCount, cartLinkText,
                   btnText, btnBg, submitText, submitBg, timers, liveNodes,
                   addClicks, obsVars, scrollVars, headerVars, loadVars>>

Submit ==
    /\ Len(timers) + 2 <= MaxTimers
    /\ Commit(newsletterSubmit(NewEvent))
    /\ Dispatched("submit")
    /\ UNCHANGED addClicks

NewsNext ==
    \/ EmailInput
    \/ Submit
    \/ FireTimer
    \/ Tick

NewsSpec == Init /\ [][NewsNext]_vars

(* The validation applied to every short string over the characters the    *)
(* pattern tells apart.                                                    *)
EmailChars == {"a", "@", ".", " "}

RECURSIVE StringsUpTo(_)
StringsUpTo(n) ==
    IF n = 0 THEN {<< >>}
    ELSE LET shorter == StringsUpTo(n - 1)
         IN  shorter \cup {Append(w, ch) : w \in shorter, ch \in EmailChars}

EmailAnyInit ==
    /\ emailValue \in StringsUpTo(MaxEmailLen)
    /\ PageInit
    /\ LoadedInit
    /\ ObsInit([o \in Observers |-> [e \in Watched |-> FALSE]])

EmailNext ==
    \/ Submit
    \/ FireTimer
    \/ Tick

EmailSpec == EmailAnyInit /\ [][EmailNext]_vars

----------------------------------------------------------------------------
(* Intersection observers.                                                 *)

(* Variant: the callback follows the viewport in both directions and       *)
(* keeps observing.                                                        *)
revealEntry_Follows(O, entry) ==
    IF entry.isIntersecting
    THEN [O EXCEPT
            !.transitions["reveal"][entry.target] =
                IF O.style[entry.target] = Visible THEN @ ELSE @ + 1,
            !.style[entry.target] = Visible]
    ELSE [O EXCEPT !.style[entry.target] = Hidden]

(* observer (reveal on scroll): callback body for one entry                *)
revealEntry(O, entry) ==
    IF entry.isIntersecting
    THEN [O EXCEPT
            !.transitions["reveal"][entry.target] =
                IF O.style[entry.target] = Visible THEN @ ELSE @ + 1,
            !.style[entry.target] = Visible,
            !.observing["reveal"] = @ \ {entry.target}]
    ELSE O

(* lazyBackgroundObserver: callback body for one entry                     *)
lazyEntry(O, entry) ==
    IF entry.isIntersecting
    THEN [O EXCEPT
            !.transitions["lazy"][entry.target] =
                IF entry.target \in O.loaded THEN @ ELSE @ + 1,
            !.loaded = @ \cup {entry.target},
            !.observing["lazy"] = @ \ {entry.target}]
    ELSE O

RECURSIVE forEachEntry(_, _, _)
forEachEntry(O, o, es) ==
    IF es = << >> THEN O
    ELSE forEachEntry(IF o = "reveal" THEN revealEntry(O, Head(es))
                      ELSE lazyEntry(O, Head(es)),
                      o, Tail(es))

CurObs == [observing |-> observing, style |-> style, loaded |-> loaded,
           transitions |-> transitions]

(* The element crosses the observer's threshold; an entry is queued when   *)
(* the element is an observation target.                                   *)
IntersectionChange ==
    /\ \E o \in Observers : \E e \in Watched :
           /\ inView' = [inView EXCEPT ![o][e] = ~@]
           /\ IF e \in observing[o]
              THEN /\ Len(entries[o]) < MaxEntries
                   /\ entries' = [entries EXCEPT
                                    ![o] = Append(@, Entry(e, ~inView[o][e]))]
              ELSE UNCHANGED entries
    /\ UNCHANGED <<observing, style, loaded, transitions>>
    /\ Dispatched("intersection")
    /\ UNCHANGED <<domVars, addClicks, scrollVars, headerVars, loadVars>>

(* The observer's callback runs with the queued entries.                   *)
Notify ==
    /\ \E o \in Observers :
           /\ entries[o] # << >>
           /\ LET O == forEachEntry(CurObs, o, entries[o])
              IN  /\ observing' = O.observing
                  /\ style' = O.style
                  /\ loaded' = O.loaded
                  /\ transitions' = O.transitions
           /\ entries' = [entries EXCEPT ![o] = << >>]
    /\ UNCHANGED inView
    /\ Dispatched("notify")
    /\ UNCHANGED <<domVars, addClicks, scrollVars, headerVars, loadVars>>

ObsNext ==
    \/ IntersectionChange
    \/ Notify

ObsInitAny ==
    /\ DomInit
    /\ \E iv \in [Observers -> [Watched -> BOOLEAN]] : ObsInit(iv)

ObsSpec == ObsInitAny /\ [][ObsNext]_vars

----------------------------------------------------------------------------
(* The whole page.                                                         *)

Next ==
    \/ ShopNext
    \/ AnchorClick
    \/ Frame
    \/ UserScroll
    \/ ScrollEvent
    \/ MsTick
    \/ HandleScroll
    \/ EmailInput
    \/ Submit
    \/ IntersectionChange
    \/ Notify

Spec == Init /\ [][Next]_vars

----------------------------------------------------------------------------
(* Properties of the mobile navigation.                                    *)

(* C1: after every event handler has finished, aria-expanded is 'true'     *)
(* exactly when the menu carries the class 'active'.                       *)
C1_AriaMatchesClass == (ariaExpanded = "true") <=> navMenuActive

(* A click on a menu link has just closed the open menu.                   *)
C1_Witness ==
    /\ lastEvent = "click navLink"
    /\ lastClosed
    /\ ~navMenuActive
    /\ ariaExpanded = "false"

(* C2: a click outside both the menu and the toggle, made while the menu   *)
(* is open, leaves the menu closed, whatever the click target: a plain     *)
(* page element, an add-to-cart button or a quick-view button.             *)
C2_OutsideClickCloses ==
    [][(navMenuActive /\ (OutsideClick \/ AddToCartClick \/ QuickViewClick))
          => (~navMenuActive' /\ ariaExpanded' = "false")]_vars

(* C3: Escape on an open menu closes it and focuses the toggle; Escape on  *)
(* a closed menu changes neither the menu nor the focus; closing by an     *)
(* outside click or a link click does not move the focus to the toggle.    *)
C3_EscapeFocusesToggle ==
    [][/\ (navMenuActive /\ KeyEscape)
            => /\ ~navMenuActive'
               /\ ariaExpanded' = "false"
               /\ activeElement' = navToggle
       /\ (~navMenuActive /\ KeyEscape)
            => UNCHANGED <<navMenuActive, ariaExpanded, bodyOverflow,
                           activeElement>>
       /\ (navMenuActive /\ (OutsideClick \/ NavLinkClick))
            => /\ ~navMenuActive'
               /\ (activeElement' = navToggle => activeElement = navToggle)
      ]_vars

(* Escape has just closed the open menu and the toggle has the focus.      *)
C3_Witness ==
    /\ lastEvent = "keydown Escape"
    /\ lastClosed
    /\ ~navMenuActive
    /\ activeElement = navToggle

(* C4: the body scroll lock (overflow 'hidden') is set exactly when the    *)
(* menu is open and is released ('') whenever it is closed.                *)
C4_ScrollLockMatchesMenu ==
    /\ navMenuActive => bodyOverflow = "hidden"
    /\ ~navMenuActive => bodyOverflow = ""

(* An outside click has just closed the open menu and released the lock.   *)
C4_Witness ==
    /\ lastEvent = "click outside"
    /\ lastClosed
    /\ ~navMenuActive
    /\ bodyOverflow = ""

(* C5: with the menu open, Tab on the last focusable element of the menu   *)
(* focuses the first and Shift+Tab on the first focuses the last; with     *)
(* the menu closed or the focus elsewhere the trap neither moves the focus *)
(* nor cancels the default action (the focus moves on in tab order).       *)
C5_FocusTrap ==
    [][/\ (KeyTab /\ lastEvent' = "keydown Tab") =>
            IF navMenuActive /\ activeElement = lastFocusable
            THEN activeElement' = firstFocusable
            ELSE /\ ~defaultPrevented'
                 /\ activeElement' = TabTarget(activeElement, FALSE)
       /\ (KeyTab /\ lastEvent' = "keydown Shift+Tab") =>
            IF navMenuActive /\ activeElement = firstFocusable
            THEN activeElement' = lastFocusable
            ELSE /\ ~defaultPrevented'
                 /\ activeElement' = TabTarget(activeElement, TRUE)
      ]_vars

(* Tab on the last menu element has wrapped the focus to the first.        *)
C5_Witness ==
    /\ lastEvent = "keydown Tab"
    /\ navMenuActive
    /\ defaultPrevented
    /\ activeElement = firstFocusable

----------------------------------------------------------------------------
(* Properties of the product cards.                                        *)

(* C6: the cart counter and the number in the cart link's label equal the  *)
(* number of add-to-cart clicks; no other event changes them.              *)
C6_CountPerClick ==
    /\ cartCount = addClicks
    /\ addClicks > 0 => cartLinkText = CartLabel(addClicks)

(* Two add-to-cart clicks have been counted, and a quick-view announcement *)
(* is in the document.                                                     *)
C6_Witness ==
    /\ addClicks = 2
    /\ cartLinkText = CartLabel(2)
    /\ \E n \in liveNodes : n.msg.m = "Opening quick view for"

NoRevertPending(kind, ref) ==
    \A j \in 1..Len(timers) : ~(timers[j].kind = kind /\ timers[j].ref = ref)

(* C9: an add-to-cart click puts the button in the 'Added!' state, and     *)
(* whenever no revert timer of a button is pending the button shows its    *)
(* original label and its background colour is reset.                      *)
C9_ButtonReverts ==
    [][/\ AddToCartClick =>
            LET c == timers'[Len(timers')].ref
            IN  btnText'[c] = "Added!" /\ btnBg'[c] = "#4CAF50"
       /\ \A c \in Cards :
            NoRevertPending("revertBtn", c)'
                => (btnText'[c] = OriginalBtnLabel /\ btnBg'[c] = "")
      ]_vars

----------------------------------------------------------------------------
(* Properties of the newsletter form.                                      *)

ErrorMsg == Msg("Please enter a valid email address", 0)
SuccessMsg == Msg("Successfully subscribed to newsletter", 0)

Announced(message) ==
    /\ Cardinality(liveNodes') = Cardinality(liveNodes) + 1
    /\ \E n \in liveNodes' \ liveNodes : n.msg = message

(* C7: a submit with an empty or pattern-invalid email prevents the        *)
(* default action, announces an error, focuses the email field and leaves  *)
(* the field's value and the submit button's label and colour unchanged;   *)
(* the only timer started is the one that removes the announcement.        *)
C7_InvalidSubmit ==
    [][(Submit /\ (emailValue = << >> \/ ~isValidEmail(emailValue)))
        => /\ defaultPrevented'
           /\ Announced(ErrorMsg)
           /\ activeElement' = emailInput
           /\ emailValue' = emailValue
           /\ submitText' = submitText
           /\ submitBg' = submitBg
           /\ Len(timers') = Len(timers) + 1
           /\ timers'[Len(timers')].kind = "removeAnnouncement"
      ]_vars

(* "a@a" has just been submitted and rejected.                             *)
C7_Witness ==
    /\ lastEvent = "submit"
    /\ emailValue = <<"a", "@", "a">>
    /\ activeElement = emailInput
    /\ \E n \in liveNodes : n.msg = ErrorMsg
    /\ submitText = OriginalSubmitLabel

(* C8: a valid submit clears the field, announces success and shows        *)
(* 'Subscribed!'; whenever no revert timer is pending the submit button    *)
(* shows its original label again.                                         *)
C8_SubmitLabelReverts ==
    [][/\ (Submit /\ isValidEmail(emailValue))
            => /\ emailValue' = << >>
               /\ Announced(SuccessMsg)
               /\ submitText' = "Subscribed!"
       /\ NoRevertPending("revertSubmit", 0)'
            => submitText' = OriginalSubmitLabel
      ]_vars

----------------------------------------------------------------------------
(* Properties of the intersection observers.                               *)

Delivered(o, e) ==
    /\ Notify
    /\ entries[o] # << >>
    /\ entries'[o] = << >>
    /\ \E j \in 1..Len(entries[o]) :
           entries[o][j].target = e /\ entries[o][j].isIntersecting

(* C10: every watched element makes its one-shot transition at most once:  *)
(* it is revealed (loaded) by the first intersecting report delivered for  *)
(* it, is unobserved in that step, and never becomes hidden (unloaded)     *)
(* again.                                                                  *)
C10_OneShot ==
    [][\A e \in Watched :
        /\ transitions'["reveal"][e] <= 1
        /\ transitions'["lazy"][e] <= 1
        /\ Delivered("reveal", e)
              => (style'[e] = Visible /\ e \notin observing'["reveal"])
        /\ Delivered("lazy", e)
              => (e \in loaded' /\ e \notin observing'["lazy"])
        /\ style[e] = Visible
              => (style'[e] = Visible /\ e \notin observing'["reveal"])
        /\ e \in loaded
              => (e \in loaded' /\ e \notin observing'["lazy"])
        /\ style'[e] \in {Hidden, Visible}
      ]_vars

(* A revealed element has left the viewport and stays visible and          *)
(* unobserved, and a lazy background is loaded.                            *)
C10_Witness ==
    /\ lastEvent = "intersection"
    /\ \E e \in Watched :
           /\ style[e] = Visible
           /\ ~inView["reveal"][e]
           /\ transitions["reveal"][e] = 1
           /\ e \notin observing["reveal"]
    /\ \E e \in Watched : e \in loaded /\ transitions["lazy"][e] = 1

----------------------------------------------------------------------------
(* Properties of the email validation.                                     *)

Count(email, ch) == Cardinality({j \in 1..Len(email) : email[j] = ch})

(* The accepted strings as the specification words them.                   *)
WellFormed(email) ==
    /\ \A j \in 1..Len(email) : email[j] \notin Whitespace
    /\ Count(email, "@") = 1
    /\ LET a == CHOOSE j \in 1..Len(email) : email[j] = "@"
       IN  /\ a > 1
           /\ \E d \in (a + 1)..Len(email) :
                  email[d] = "." /\ d # a + 1 /\ d # Len(email)

(* C19: the newsletter validation accepts a string exactly when it has no  *)
(* whitespace, exactly one '@', a non-empty local part, and a '.' in the   *)
(* part after the '@' that is neither its first nor its last character;    *)
(* every other string, the empty one included, is rejected.                *)
C19_ValidEmailShape ==
    [][Submit =>
          /\ isValidEmail(emailValue) <=> WellFormed(emailValue)
          /\ (submitText' = "Subscribed!" /\ emailValue' = << >>
                  /\ Announced(SuccessMsg))
                <=> WellFormed(emailValue)
          /\ Announced(ErrorMsg) <=> ~WellFormed(emailValue)
      ]_vars

(* "a@a.a" has been accepted.                                              *)
C19_Witness ==
    /\ lastEvent = "submit"
    /\ emailValue = << >>
    /\ submitText = "Subscribed!"
    /\ \E n \in liveNodes : n.msg = SuccessMsg

----------------------------------------------------------------------------
(* Properties of the announcements.                                        *)

RemovalTimers ==
    {j \in 1..Len(timers) : timers[j].kind = "removeAnnouncement"}

(* C20: every announcement node in the body has exactly one pending        *)
(* removal timer and every removal timer one node; a removal runs when its *)
(* 1000 ms have elapsed, finds its node in the body and removes that node  *)
(* only; an announcement adds one node; with no timer pending no node is   *)
(* left.                                                                   *)
C20_NodePerTimer ==
    [][/\ Cardinality(liveNodes') = Cardinality(RemovalTimers')
       /\ {n.id : n \in liveNodes'} = {timers'[j].ref : j \in RemovalTimers'}
       /\ \A j \in RemovalTimers' : \A k \in RemovalTimers' :
              timers'[j].ref = timers'[k].ref => j = k
       /\ (FireTimer /\ Cardinality(RemovalTimers') < Cardinality(RemovalTimers))
            => \E j \in RemovalTimers :
                  /\ timers[j].rem = 0
                  /\ \E n \in liveNodes :
                        n.id = timers[j].ref /\ liveNodes' = liveNodes \ {n}
       /\ (Cardinality(RemovalTimers') > Cardinality(RemovalTimers))
            => /\ Cardinality(liveNodes') = Cardinality(liveNodes) + 1
               /\ liveNodes \subseteq liveNodes'
       /\ (timers' = << >>) => (liveNodes' = {})
      ]_vars

(* Two announcements made at different times overlap in the body.          *)
C20_Witness ==
    /\ Cardinality(liveNodes) = 2
    /\ \E j \in RemovalTimers : \E k \in RemovalTimers :
           timers[j].rem = 0 /\ timers[k].rem = 1

----------------------------------------------------------------------------
(* Properties of the in-page anchors and the scroll animation.             *)

Goal(target) == DocumentTop(target) - HeaderHeight * Scale

Dist(x, y) == IF x >= y THEN x - y ELSE y - x

(* C13: an animation ends: every frame moves each running animation on,    *)
(* none runs past its duration, and the offset written by its last frame   *)
(* is within one unit of the target's document offset minus 60, whatever   *)
(* the spacing of the frames.                                              *)
C13_ScrollLandsOnTarget ==
    [][Frame =>
          /\ Len(anims') <= Len(anims)
          /\ \A j \in 1..Len(anims') :
                /\ anims'[j].started
                /\ anims'[j].timeElapsed < DurationTicks
                /\ \E k \in 1..Len(anims) :
                      /\ anims[k].target = anims'[j].target
                      /\ anims[k].startPosition = anims'[j].startPosition
                      /\ anims[k].started
                           => anims'[j].timeElapsed > anims[k].timeElapsed
          /\ Len(anims') < Len(anims)
                => Dist(finished'[1].final, Goal(finished'[1].target))
                      <= Scale
      ]_vars

(* The hrefs the anchor listener leaves to the browser.                    *)
LeftAlone == {"#", "#cart", "#missing"}

(* C14: a click on an anchor whose href is '#' or '#cart', or whose target *)
(* does not exist, is not intercepted: the default is not prevented, no    *)
(* animation starts, the address and the scroll offset stay, and the focus *)
(* is where the press left it; a click on any other in-page anchor         *)
(* prevents the default and starts exactly one animation.                  *)
C14_AnchorInterception ==
    [][\A i \in PageLinks :
          AnchorClickOn(i) =>
              IF PageHrefs[i] \in LeftAlone
              THEN /\ ~defaultPrevented'
                   /\ anims' = anims
                   /\ locationHash' = locationHash
                   /\ scrollY' = scrollY
                   /\ activeElement' \in {activeElement, pageLink(i)}
              ELSE /\ defaultPrevented'
                   /\ Len(anims') = Len(anims) + 1
                   /\ SubSeq(anims', 1, Len(anims)) = anims
                   /\ ~anims'[Len(anims')].started
                   /\ anims'[Len(anims')].target = querySelector(PageHrefs[i])
      ]_vars

(* A click on the link to '#about' has been intercepted.                   *)
C14_Witness ==
    /\ lastEvent = "click anchor"
    /\ defaultPrevented
    /\ locationHash = "#about"
    /\ Len(anims) = 1
    /\ ~anims[1].started
    /\ anims[1].target = aboutSection

(* C18: the address is updated and the focus moved to the destination      *)
(* only after the animation towards it has written its final offset.       *)
C18_AddressAfterAnimation ==
    [][\A target \in {section, aboutSection} :
          (\/ (locationHash' # locationHash
                 /\ querySelector(locationHash') = target)
           \/ (activeElement' # activeElement /\ activeElement' = target))
            => /\ \A j \in 1..Len(anims') : anims'[j].target # target
               /\ finished' # << >>
               /\ finished'[1].target = target
      ]_vars

----------------------------------------------------------------------------
(* Properties of the header controller.                                    *)

(* C15: a run of the debounced handler hides the header if the offset is   *)
(* greater than the previous sample and greater than 100, shows it if the  *)
(* offset is less than the previous sample, and makes the offset the       *)
(* previous sample; nothing else changes that sample.                      *)
C15_HeaderFollowsScroll ==
    [][/\ HandleScroll =>
            /\ (scrollY > lastScrollY /\ scrollY > HeaderThreshold * Scale)
                  => headerTransform' = "translateY(-100%)"
            /\ scrollY < lastScrollY => headerTransform' = "translateY(0)"
            /\ lastScrollY' = scrollY
       /\ ~HandleScroll => lastScrollY' = lastScrollY
      ]_vars

(* The header has been hidden and is shown again on the way up.            *)
C15_Witness ==
    /\ headerTransform = "translateY(0)"
    /\ lastScrollY = scrollY
    /\ scrollY > HeaderThreshold * Scale
    /\ runsSinceScroll = 1

(* C17 as stated: the handler runs once per burst, 10 ms after its last    *)
(* event and never during it, at most one debounce timer is pending, and   *)
(* every scroll event is followed by a handler run.                        *)
C17_BoundedDelay ==
    /\ [][HandleScroll => (sinceScroll = DebounceWait /\ runsSinceScroll = 0)
         ]_vars
    /\ [](Cardinality(debounceTimers) <= 1)
    /\ (debounceTimers # {}) ~> (debounceTimers = {})

(* C17: the handler runs once per burst, 10 ms after the burst's last      *)
(* event and never during it; at most one debounce timer is pending; the   *)
(* pending timer is due 10 ms after the last event, and when no timer is   *)
(* pending the last event has had its run.                                 *)
C17_TrailingRun ==
    [][/\ HandleScroll => (sinceScroll = DebounceWait /\ runsSinceScroll = 0)
       /\ Cardinality(debounceTimers') <= 1
       /\ \A t \in debounceTimers' : t.rem = DebounceWait - sinceScroll'
       /\ (debounceTimers' = {} /\ timeout' # 0) => runsSinceScroll' = 1
       /\ debounceTimers' # {} => runsSinceScroll' = 0
      ]_vars

(* A burst of two events has been answered by one run.                     *)
C17_Witness ==
    /\ burst = 2
    /\ runsSinceScroll = 1
    /\ debounceTimers = {}
    /\ lastScrollY = scrollY

----------------------------------------------------------------------------
(* Properties of the card keyboard handler.                                *)

(* C16: Enter or Space on a card makes one quick-view announcement for     *)
(* that card if it has a quick-view button and none if it has not; any     *)
(* other key does nothing; no key press changes the cart.                  *)
C16_CardKeys ==
    [][CardKey =>
          LET c == activeElement.i
              new == liveNodes' \ liveNodes
          IN  /\ cartCount' = cartCount
              /\ cartLinkText' = cartLinkText
              /\ btnText' = btnText
              /\ liveNodes \subseteq liveNodes'
              /\ IF lastEvent' = "keydown activate"
                    /\ quickViewBtn(c) \in present
                 THEN /\ Cardinality(new) = 1
                      /\ \A n \in new :
                             n.msg = Msg("Opening quick view for", c)
                      /\ Len(timers') = Len(timers) + 1
                 ELSE /\ new = {}
                      /\ timers' = timers
      ]_vars

(* Enter on a card without a quick-view button.                            *)
C16_Witness ==
    /\ lastEvent = "keydown activate"
    /\ InCard(activeElement)
    /\ quickViewBtn(activeElement.i) \notin present
    /\ defaultPrevented
    /\ liveNodes = {}

----------------------------------------------------------------------------
(* Properties of the script's run at load time.                            *)

(* What the script sets up apart from the two observers.                   *)
PlainListeners ==
    {Listener("navToggle click", 0), Listener("document click", 0),
     Listener("anchor click", 0), Listener("window scroll", 0),
     Listener("newsletter submit", 0), Listener("document keydown", 0),
     Listener("navMenu keydown", 0)}
        \cup {Listener("navLink click", i) : i \in Links}
        \cup {Listener("card keydown", c) : c \in Cards}
        \cup {Listener("addToCart click", c) : c \in Cards}
        \cup {Listener("quickView click", c) : c \in Cards}

(* C11: without IntersectionObserver the script runs to its end without    *)
(* throwing, sets up no lazy-loading observer, and attaches every other    *)
(* listener: navigation, anchors, header, cards, newsletter, Escape and    *)
(* focus trap.                                                             *)
C11_RunsWithoutObserver ==
    (scriptState # "pending" /\ ~hasIO /\ present = ExpectedParts)
        => /\ scriptState = "done"
           /\ Listener("lazy observer", 0) \notin attached
           /\ PlainListeners \subseteq attached

(* C12: whichever expected elements are missing, the script runs to its    *)
(* end and no later event makes a listener fail; a listener is absent only *)
(* if an element it is set on is missing.                                  *)
C12_RunsWithoutElements ==
    hasIO => /\ scriptState \in {"pending", "done"}
             /\ handlerError = "none"
             /\ scriptState = "done" =>
                    /\ Listener("window load", 0) \in attached
                    /\ Listener("document keydown", 0) \in attached
                    /\ Listener("anchor click", 0) \in attached

----------------------------------------------------------------------------
(* Properties of overlapping scroll animations.                            *)

(* C21: when an animation is started while an earlier one is running, the  *)
(* callbacks of both run on every frame in request order, each of them     *)
(* stops once its own duration is over, and when none is left the scroll   *)
(* offset is the destination of the anchor clicked last, its target's      *)
(* document offset minus 60.                                               *)
C21_LastClickWins ==
    [][Frame =>
          /\ \A j \in 1..Len(anims') :
                anims'[j].started /\ anims'[j].timeElapsed < DurationTicks
          /\ Len(anims) >= 2 =>
                \A j \in 1..Len(anims') : \E k \in 1..Len(anims) :
                    /\ anims[k].target = anims'[j].target
                    /\ anims[k].startPosition = anims'[j].startPosition
                    /\ \A m \in 1..(j - 1) : \E n \in 1..(k - 1) :
                          anims[n].startPosition = anims'[m].startPosition
          /\ (overlapped /\ anims' = << >>)
                => /\ finished'[1].target = querySelector(locationHash)
                   /\ Dist(scrollY', Goal(querySelector(locationHash)))
                         <= Scale
      ]_vars

====
